---- MODULE Spec2Model ----
(***************************************************************************)
(* Job tracking and orchestration layer of sl-behavior.                    *)
(*                                                                         *)
(* One session is modelled.  Its persisted behavior tracker file is shared *)
(* by two clients:                                                         *)
(*   - a process that runs pipeline.process_session in local mode, and     *)
(*   - the MCP server, whose start_processing_tool launches the background *)
(*     thread _run_processing_in_background.                               *)
(* A process_session process can be interrupted (KeyboardInterrupt,        *)
(* SystemExit, a signal) at any point and the session can be run again.    *)
(***************************************************************************)
EXTENDS Integers, Sequences, FiniteSets, TLC

(* ------------------------------ bounds --------------------------------- *)

\* Number of job kinds of the catalog that the model runs.
NumJobs == 2

(* ------------------------------ catalog -------------------------------- *)

BehaviorJobNames ==
    << "runtime_processing", "face_camera_processing", "body_camera_processing",
       "actor_microcontroller_processing", "sensor_microcontroller_processing",
       "encoder_microcontroller_processing" >>

\* The catalog entries in declaration order, restricted to the model's bound.
JobList == SubSeq(BehaviorJobNames, 1, NumJobs)

Jobs == {JobList[i] : i \in 1..Len(JobList)}

\* Exceptions (subclasses of Exception) an extractor can raise.
Errors == {"RuntimeError", "ValueError"}

\* The session under processing.
session_name == "session"

session_root == "root"

(* --------------------------- ProcessingTracker ------------------------- *)

Terminal == {"SUCCEEDED", "FAILED"}

JobStatus == {"PENDING", "RUNNING"} \cup Terminal

\* ProcessingTracker.generate_job_id: a deterministic, collision-free token.
generate_job_id(root, job_name) == <<root, job_name>>

\* f"{session_name}_{base_job_name}"
FullJobName(base_job_name) == <<session_name, "_", base_job_name>>

\* _generate_job_ids: full job name -> job id, here per base job name.
GenerateJobIds(base_job_names) ==
    [b \in base_job_names |-> generate_job_id(session_root, FullJobName(b))]

JobId(b) == GenerateJobIds({b})[b]

\* A tracker is a function from the identifiers that have a record to statuses.
EmptyTracker == [i \in {} |-> "PENDING"]

initialize_jobs(t, ids) ==
    [i \in (DOMAIN t) \cup ids |-> IF i \in ids THEN "PENDING" ELSE t[i]]

start_job(t, id) ==
    IF id \in DOMAIN t /\ t[id] = "PENDING" THEN [t EXCEPT ![id] = "RUNNING"] ELSE t

complete_job(t, id) ==
    IF id \in DOMAIN t /\ t[id] = "RUNNING" THEN [t EXCEPT ![id] = "SUCCEEDED"] ELSE t

fail_job(t, id) ==
    [i \in (DOMAIN t) \cup {id} |-> IF i = id THEN "FAILED" ELSE t[i]]

(* ------------------------------- state --------------------------------- *)

VARIABLES
    available_jobs,    \* base job names whose log file exists (_resolve_available_jobs)
    tracker,           \* the persisted tracker file of the session
    pc,                \* position of the process_session process
    flags,             \* the process_* flags process_session was called with
    base_jobs_to_run,  \* process_session: the list of jobs of this run
    job_index,         \* process_session: position of the for loop in base_jobs_to_run
    raised,            \* exception that left process_session, "none" if none
    initialised,       \* identifiers this run passed to initialize_jobs
    invoked,           \* per job, how many times this run invoked its extractor
    ext_outcome,       \* per job, how its extractor ended in this run
    propagated,        \* per job, the exception _execute_job let out to its caller
    stale_running,     \* identifiers whose record was RUNNING when this run began
    job_id,            \* the job_id argument of the call in progress, "None" in local mode
    job_name,          \* the job_name a direct caller gave _execute_job, "None" otherwise
    failed_from,       \* status the record had when an error path called fail_job
    active_sessions,   \* MCP server: TRUE when the session key is in _active_sessions
    thread,            \* MCP server: state of the latest background thread
    tool_pc,           \* MCP server: position of start_processing_tool
    tool_flags,        \* MCP server: flags of the latest start_processing_tool call that used them
    reply,             \* MCP server: what the latest start_processing_tool returned
    registered,        \* MCP server, all sessions: the keys of _active_sessions
    threads,           \* MCP server, all sessions: state of the latest thread of each session
    trackers,          \* MCP server, all sessions: the tracker file of each session
    srv_pc,            \* MCP server, all sessions: position of start_processing_tool
    srv_session,       \* MCP server, all sessions: session of the latest start request, 0 if none
    srv_reply,         \* MCP server, all sessions: what the latest start request returned
    accepted,          \* MCP server, all sessions: sessions a start request was accepted for
    requested_workers, \* _calculate_job_workers: the requested_workers argument
    available_cores,   \* _calculate_job_workers: what cpu_count() returned, NoneCores for None
    job_workers,       \* _calculate_job_workers: the result, 0 before the call
    status_report,     \* _get_session_status: the dictionary the latest call returned
    status_path,       \* _get_session_status: the session_path argument of the latest call
    lingering,         \* MCP server: per stage, the earlier threads of the session still alive
    tracker_corrupt,   \* TRUE when the persisted tracker file cannot be parsed
    legacy_pc,         \* cli.extract_log_data: position of the call
    legacy_call,       \* cli.extract_log_data: the session and arguments of the latest call
    legacy_done,       \* cli.extract_log_data: futures whose result() has returned
    legacy_tracker,    \* cli.extract_log_data: state of the legacy behavior tracker file
    legacy_raised      \* cli.extract_log_data: exception that left the call, "none" if none

pipeline_vars ==
    << pc, flags, base_jobs_to_run, job_index, raised, initialised, invoked,
       ext_outcome, propagated, stale_running >>

call_vars == << job_id, job_name, failed_from >>

mcp_vars == << active_sessions, thread, tool_pc, tool_flags, reply >>

server_vars ==
    << registered, threads, trackers, srv_pc, srv_session, srv_reply, accepted >>

query_vars == << requested_workers, available_cores, job_workers, status_report >>

legacy_vars == << legacy_pc, legacy_call, legacy_done, legacy_tracker, legacy_raised >>

other_vars == << status_path, lingering, tracker_corrupt, legacy_vars >>

vars ==
    << available_jobs, tracker, pipeline_vars, call_vars, mcp_vars, server_vars,
       query_vars, other_vars >>

Rec(b) == IF JobId(b) \in DOMAIN tracker THEN tracker[JobId(b)] ELSE "ABSENT"

NoneInvoked == [b \in Jobs |-> 0]

NoOutcome == [b \in Jobs |-> "none"]

\* _RESERVED_CORES and _MAXIMUM_JOB_CORES of the MCP server.
RESERVED_CORES == 4

MAXIMUM_JOB_CORES == 30

\* cpu_count() of the machine the server runs on.
cpu_count == 64

\* The admission limit: max(1, floor((cpu_count + reserved_margin) / max_job_cores)).
max_parallel_sessions ==
    LET q == (cpu_count + RESERVED_CORES) \div MAXIMUM_JOB_CORES
    IN IF q > 1 THEN q ELSE 1

\* Largest requested_workers and largest cpu_count() the model draws.
MaxRequested == 32

MaxCpu == 36

\* cpu_count() returned None.
NoneCores == -1

RequestedWorkers == (-2)..MaxRequested

CpuCounts == 0..MaxCpu

Min(a, b) == IF a < b THEN a ELSE b

Max(a, b) == IF a > b THEN a ELSE b

\* Variant: an explicit request is passed through without the cap.
calculate_job_workers_Uncapped(requested, cores) ==
    IF requested > 0
    THEN requested
    ELSE IF cores = NoneCores
         THEN RESERVED_CORES
         ELSE Min(Max(1, cores - RESERVED_CORES), MAXIMUM_JOB_CORES)

\* _calculate_job_workers(requested_workers), with the value of cpu_count().
calculate_job_workers(requested, cores) ==
    IF requested > 0
    THEN Min(requested, MAXIMUM_JOB_CORES)
    ELSE IF cores = NoneCores
         THEN RESERVED_CORES
         ELSE Min(Max(1, cores - RESERVED_CORES), MAXIMUM_JOB_CORES)

\* No status was queried.
NoReport == [status |-> "none", completed |-> 0, total |-> 0]

\* Neither _calculate_job_workers nor _get_session_status has been called.
NoQuery ==
    /\ requested_workers = -1
    /\ available_cores = NoneCores
    /\ job_workers = 0
    /\ status_report = NoReport

\* The stages in which a background thread is alive: before its finally
\* clause, in it, and after it until the thread has ended.
AliveStages == {"running", "finally", "exiting"}

NoLingering == [stage \in AliveStages |-> 0]

\* Number of superseded threads of the session that have not ended yet.
MaxLingering == 1

\* Largest number of compressed log files a session holds.
MaxLogFiles == 2

\* What extract_log_data reads from its session and its arguments: the number
\* of .npz files, the acquisition system (Mesoscope-VR, another supported
\* system, or an unsupported one), whether the session type is supported, and
\* update_manifest.
LegacyCalls ==
    [files : 0..MaxLogFiles,
     system : {"mesoscope-vr", "other", "unsupported"},
     type_supported : BOOLEAN,
     update_manifest : BOOLEAN]

NoCall ==
    [files |-> 0, system |-> "mesoscope-vr", type_supported |-> TRUE,
     update_manifest |-> FALSE]

\* extract_log_data has not been called; the legacy tracker file is absent.
NoLegacy ==
    /\ legacy_pc = "idle"
    /\ legacy_call = NoCall
    /\ legacy_done = 0
    /\ legacy_tracker = "none"
    /\ legacy_raised = "none"

\* No status path was given, no thread lingers, the tracker file is well formed
\* and extract_log_data has not been called.
NoOther ==
    /\ status_path = session_root
    /\ lingering = NoLingering
    /\ tracker_corrupt = FALSE
    /\ NoLegacy

\* Number of session directories the MCP server is asked to process.
NumSessions == 3

\* The session keys (str(path)) of these directories.
Sessions == 1..NumSessions

\* The MCP server after import: _active_sessions is empty, no thread exists.
ServerIdle ==
    /\ registered = {}
    /\ threads = [s \in Sessions |-> "none"]
    /\ trackers = [s \in Sessions |-> EmptyTracker]
    /\ srv_pc = "idle"
    /\ srv_session = 0
    /\ srv_reply = "none"
    /\ accepted = {}

Init ==
    /\ available_jobs \in SUBSET Jobs
    /\ tracker = EmptyTracker
    /\ pc = "idle"
    /\ flags = {}
    /\ base_jobs_to_run = << >>
    /\ job_index = 1
    /\ raised = "none"
    /\ initialised = {}
    /\ invoked = NoneInvoked
    /\ ext_outcome = NoOutcome
    /\ propagated = NoOutcome
    /\ stale_running = {}
    /\ job_id = "None"
    /\ job_name = "None"
    /\ failed_from = "none"
    /\ active_sessions = FALSE
    /\ thread = "none"
    /\ tool_pc = "idle"
    /\ tool_flags = {}
    /\ reply = "none"
    /\ ServerIdle
    /\ NoQuery
    /\ NoOther

(* --------------------- pipeline.process_session ------------------------ *)

\* process_session, local mode: all-false flags are treated as all-true.
RequestedJobs(f) == IF f = {} THEN Jobs ELSE f

\* process_session, local mode: requested AND available, in catalog order.
BaseJobsToRun(requested, available) ==
    SelectSeq(JobList, LAMBDA b : b \in requested /\ b \in available)

Range(s) == {s[i] : i \in 1..Len(s)}

CurrentJob == base_jobs_to_run[job_index]

\* A process calls process_session(session_path, job_id=None, **flags).
ProcessSession(f) ==
    /\ pc \in {"idle", "returned", "raised", "killed"}
    /\ pc' = "tracker_init"
    /\ flags' = f
    /\ base_jobs_to_run' = BaseJobsToRun(RequestedJobs(f), available_jobs)
    /\ job_index' = 1
    /\ raised' = "none"
    /\ initialised' = {}
    /\ invoked' = NoneInvoked
    /\ ext_outcome' = NoOutcome
    /\ propagated' = NoOutcome
    /\ stale_running' = {i \in DOMAIN tracker : tracker[i] = "RUNNING"}
    /\ job_id' = "None"
    /\ job_name' = "None"
    /\ failed_from' = "none"
    /\ UNCHANGED << other_vars, query_vars, server_vars, available_jobs, tracker, mcp_vars >>

\* Variant: initialisation only adds the records the tracker does not have yet.
InitializeProcessingTracker_KeepsExisting ==
    /\ pc = "tracker_init"
    /\ LET job_ids == GenerateJobIds(Range(base_jobs_to_run))
           ids == {job_ids[b] : b \in DOMAIN job_ids}
       IN /\ tracker' = initialize_jobs(tracker, ids \ DOMAIN tracker)
          /\ initialised' = ids
    /\ pc' = "loop"
    /\ UNCHANGED << other_vars, query_vars, server_vars, call_vars, available_jobs, flags, base_jobs_to_run, job_index, raised,
                    invoked, ext_outcome, propagated, stale_running, mcp_vars >>

\* Variant: initialisation writes a new file that holds the listed jobs only.
InitializeProcessingTracker_Recreates ==
    /\ pc = "tracker_init"
    /\ LET job_ids == GenerateJobIds(Range(base_jobs_to_run))
           ids == {job_ids[b] : b \in DOMAIN job_ids}
       IN /\ tracker' = initialize_jobs(EmptyTracker, ids)
          /\ initialised' = ids
    /\ pc' = "loop"
    /\ UNCHANGED << other_vars, query_vars, server_vars, call_vars, available_jobs, flags, base_jobs_to_run, job_index, raised,
                    invoked, ext_outcome, propagated, stale_running, mcp_vars >>

\* _initialize_processing_tracker(session_path, base_job_names).
InitializeProcessingTracker ==
    /\ pc = "tracker_init"
    /\ LET job_ids == GenerateJobIds(Range(base_jobs_to_run))
           ids == {job_ids[b] : b \in DOMAIN job_ids}
       IN /\ tracker' = initialize_jobs(tracker, ids)
          /\ initialised' = ids
    /\ pc' = "loop"
    /\ UNCHANGED << other_vars, query_vars, server_vars, call_vars, available_jobs, flags, base_jobs_to_run, job_index, raised,
                    invoked, ext_outcome, propagated, stale_running, mcp_vars >>

\* Variant: the extractor is dispatched without the RUNNING status persisted.
ExecuteJobStart_Unpersisted ==
    /\ pc = "loop"
    /\ job_index <= Len(base_jobs_to_run)
    /\ invoked' = [invoked EXCEPT ![CurrentJob] = @ + 1]
    /\ pc' = "extractor"
    /\ UNCHANGED << other_vars, query_vars, server_vars, call_vars, available_jobs, tracker, flags, base_jobs_to_run, job_index,
                    raised, initialised, ext_outcome, propagated, stale_running,
                    mcp_vars >>

\* Variant: every job of the run that is still PENDING is marked RUNNING at once.
ExecuteJobStart_StartsAll ==
    /\ pc = "loop"
    /\ job_index <= Len(base_jobs_to_run)
    /\ tracker' = [i \in DOMAIN tracker |->
                      IF i \in initialised /\ tracker[i] = "PENDING"
                      THEN "RUNNING" ELSE tracker[i]]
    /\ invoked' = [invoked EXCEPT ![CurrentJob] = @ + 1]
    /\ pc' = "extractor"
    /\ UNCHANGED << other_vars, query_vars, server_vars, call_vars, available_jobs, flags, base_jobs_to_run, job_index, raised,
                    initialised, ext_outcome, propagated, stale_running, mcp_vars >>

\* _execute_job: tracker.start_job(job_id), then the extractor is dispatched.
ExecuteJobStart ==
    /\ pc = "loop"
    /\ job_index <= Len(base_jobs_to_run)
    /\ tracker' = start_job(tracker, JobId(CurrentJob))
    /\ invoked' = [invoked EXCEPT ![CurrentJob] = @ + 1]
    /\ pc' = "extractor"
    /\ UNCHANGED << other_vars, query_vars, server_vars, call_vars, available_jobs, flags, base_jobs_to_run, job_index, raised,
                    initialised, ext_outcome, propagated, stale_running, mcp_vars >>

\* Variant: complete_job is forgotten after a normal return.
ExtractorReturns_NoComplete ==
    /\ pc = "extractor"
    /\ ext_outcome' = [ext_outcome EXCEPT ![CurrentJob] = "returned"]
    /\ job_index' = job_index + 1
    /\ pc' = "loop"
    /\ UNCHANGED << other_vars, query_vars, server_vars, call_vars, available_jobs, tracker, flags, base_jobs_to_run, raised,
                    initialised, invoked, propagated, stale_running, mcp_vars >>

\* Variant: complete_job writes the file from an instance that only knows the
\* record it started, dropping the records of the other jobs.
ExtractorReturns_StaleInstance ==
    /\ pc = "extractor"
    /\ tracker' = [i \in {JobId(CurrentJob)} |-> "SUCCEEDED"]
    /\ ext_outcome' = [ext_outcome EXCEPT ![CurrentJob] = "returned"]
    /\ job_index' = job_index + 1
    /\ pc' = "loop"
    /\ UNCHANGED << other_vars, query_vars, server_vars, call_vars, available_jobs, flags, base_jobs_to_run, raised, initialised,
                    invoked, propagated, stale_running, mcp_vars >>

\* _execute_job: the extractor returns; tracker.complete_job(job_id); the for
\* loop of process_session moves on.
ExtractorReturns ==
    /\ pc = "extractor"
    /\ tracker' = complete_job(tracker, JobId(CurrentJob))
    /\ ext_outcome' = [ext_outcome EXCEPT ![CurrentJob] = "returned"]
    /\ job_index' = job_index + 1
    /\ pc' = "loop"
    /\ UNCHANGED << other_vars, query_vars, server_vars, call_vars, available_jobs, flags, base_jobs_to_run, raised, initialised,
                    invoked, propagated, stale_running, mcp_vars >>

\* Variant: the handler puts the record back to PENDING instead of failing it.
ExtractorRaises_Requeue(e) ==
    /\ pc = "extractor"
    /\ tracker' = initialize_jobs(tracker, {JobId(CurrentJob)})
    /\ ext_outcome' = [ext_outcome EXCEPT ![CurrentJob] = e]
    /\ propagated' = [propagated EXCEPT ![CurrentJob] = e]
    /\ raised' = e
    /\ pc' = "raised"
    /\ UNCHANGED << other_vars, query_vars, server_vars, call_vars, available_jobs, flags, base_jobs_to_run, job_index, initialised,
                    invoked, stale_running, mcp_vars >>

\* Variant: the handler re-raises without calling fail_job.
ExtractorRaises_NoFail(e) ==
    /\ pc = "extractor"
    /\ ext_outcome' = [ext_outcome EXCEPT ![CurrentJob] = e]
    /\ propagated' = [propagated EXCEPT ![CurrentJob] = e]
    /\ raised' = e
    /\ pc' = "raised"
    /\ UNCHANGED << other_vars, query_vars, server_vars, call_vars, available_jobs, tracker, flags, base_jobs_to_run, job_index,
                    initialised, invoked, stale_running, mcp_vars >>

\* Variant: the handler calls fail_job but swallows the exception, so the for
\* loop of process_session goes on.
ExtractorRaises_NoReraise(e) ==
    /\ pc = "extractor"
    /\ tracker' = fail_job(tracker, JobId(CurrentJob))
    /\ ext_outcome' = [ext_outcome EXCEPT ![CurrentJob] = e]
    /\ job_index' = job_index + 1
    /\ pc' = "loop"
    /\ UNCHANGED << other_vars, query_vars, server_vars, call_vars, available_jobs, flags, base_jobs_to_run, raised, initialised,
                    invoked, propagated, stale_running, mcp_vars >>

\* _execute_job: the extractor raises e; except Exception: tracker.fail_job(job_id);
\* raise.  process_session does not catch it: the exception leaves the for loop.
ExtractorRaises(e) ==
    /\ pc = "extractor"
    /\ tracker' = fail_job(tracker, JobId(CurrentJob))
    /\ ext_outcome' = [ext_outcome EXCEPT ![CurrentJob] = e]
    /\ propagated' = [propagated EXCEPT ![CurrentJob] = e]
    /\ raised' = e
    /\ pc' = "raised"
    /\ UNCHANGED << other_vars, query_vars, server_vars, call_vars, available_jobs, flags, base_jobs_to_run, job_index, initialised,
                    invoked, stale_running, mcp_vars >>

\* Variant: a run without any job to run ends with an error.
ProcessSessionReturns_EmptyIsError ==
    /\ pc = "loop"
    /\ job_index > Len(base_jobs_to_run)
    /\ pc' = IF base_jobs_to_run = << >> THEN "raised" ELSE "returned"
    /\ raised' = IF base_jobs_to_run = << >> THEN "ValueError" ELSE raised
    /\ UNCHANGED << other_vars, query_vars, server_vars, call_vars, available_jobs, tracker, flags, base_jobs_to_run, job_index,
                    initialised, invoked, ext_outcome, propagated, stale_running,
                    mcp_vars >>

\* process_session: the for loop is exhausted; "All processing jobs completed
\* successfully." is echoed and the function returns.
ProcessSessionReturns ==
    /\ pc = "loop"
    /\ job_index > Len(base_jobs_to_run)
    /\ pc' = "returned"
    /\ UNCHANGED << other_vars, query_vars, server_vars, call_vars, available_jobs, tracker, flags, base_jobs_to_run, job_index,
                    raised, initialised, invoked, ext_outcome, propagated,
                    stale_running, mcp_vars >>

\* The process is interrupted by something that is not an Exception
\* (KeyboardInterrupt, SystemExit, a kill signal): except Exception does not run.
Interrupted ==
    /\ pc \in {"tracker_init", "loop", "extractor"}
    /\ pc' = "killed"
    /\ UNCHANGED << other_vars, query_vars, server_vars, call_vars, available_jobs, tracker, flags, base_jobs_to_run, job_index,
                    raised, initialised, invoked, ext_outcome, propagated,
                    stale_running, mcp_vars >>

(* ------------- process_session with job_id, direct _execute_job -------- *)

\* The root of another location of the session, whose identifiers differ.
foreign_root == "elsewhere"

\* A base job name that is not in the catalog.
unrecognised_job == "lick_processing"

\* process_session, remote mode: identifiers of all catalog jobs of the session.
AllJobIds == GenerateJobIds(Jobs)

\* process_session, remote mode: {v: k for k, v in all_job_ids.items()}.
IdToName ==
    [i \in {AllJobIds[b] : b \in DOMAIN AllJobIds} |->
        CHOOSE b \in DOMAIN AllJobIds : AllJobIds[b] = i]

\* Identifiers that match no job of the session.
UnknownIds == {generate_job_id(foreign_root, FullJobName(JobList[1]))}

\* Identifiers that can have a record in the tracker file.
TrackedIds == (DOMAIN IdToName) \cup UnknownIds

\* Contents the tracker file can have when a call begins.
Trackers == UNION {[D -> JobStatus] : D \in SUBSET TrackedIds}

StatusOf(t, i) == IF i \in DOMAIN t THEN t[i] ELSE "ABSENT"

\* str.endswith on a qualified job name.
EndsWith(name, suffix) == name[Len(name)] = suffix

\* _execute_job: some branch of the if / elif chain matches the job name.
Recognised(name) ==
    \E k \in 1..Len(BehaviorJobNames) : EndsWith(name, BehaviorJobNames[k])

\* Job names a direct caller can hand to _execute_job.
JobNameInputs == {FullJobName(b) : b \in Jobs \cup {unrecognised_job}}

\* The tracker file holds any records; the log files are all absent or all
\* present.
InitRemote ==
    /\ available_jobs \in {{}, Jobs}
    /\ tracker \in Trackers
    /\ pc = "idle"
    /\ flags = {}
    /\ base_jobs_to_run = << >>
    /\ job_index = 1
    /\ raised = "none"
    /\ initialised = {}
    /\ invoked = NoneInvoked
    /\ ext_outcome = NoOutcome
    /\ propagated = NoOutcome
    /\ stale_running = {}
    /\ job_id = "None"
    /\ job_name = "None"
    /\ failed_from = "none"
    /\ active_sessions = FALSE
    /\ thread = "none"
    /\ tool_pc = "idle"
    /\ tool_flags = {}
    /\ reply = "none"
    /\ ServerIdle
    /\ NoQuery
    /\ NoOther

\* The process_* flags a job_id call is made with: none set, or only the flag
\* of the first catalog job.
RemoteFlags == {{}, {JobList[1]}}

\* Variant: the job_id call selects its jobs by the flags and the log files,
\* as a local call does.
ProcessSessionRemote_LocalRules(id, f) ==
    /\ pc \in {"idle", "returned", "raised", "killed"}
    /\ job_id' = id
    /\ job_name' = "None"
    /\ failed_from' = "none"
    /\ flags' = f
    /\ base_jobs_to_run' =
          IF id \in DOMAIN IdToName
          THEN BaseJobsToRun(RequestedJobs(f), available_jobs)
          ELSE << >>
    /\ job_index' = 1
    /\ pc' = IF id \in DOMAIN IdToName THEN "loop" ELSE "unknown_id"
    /\ raised' = "none"
    /\ initialised' = {}
    /\ invoked' = NoneInvoked
    /\ ext_outcome' = NoOutcome
    /\ propagated' = NoOutcome
    /\ stale_running' = {i \in DOMAIN tracker : tracker[i] = "RUNNING"}
    /\ UNCHANGED << other_vars, query_vars, server_vars, available_jobs, tracker, mcp_vars >>

\* A process calls process_session(session_path, job_id=id, **flags): the
\* reverse map is built and looked up; a known identifier selects the one job
\* to execute. The flags f and the log files present are not consulted.
ProcessSessionRemote(id, f) ==
    /\ pc \in {"idle", "returned", "raised", "killed"}
    /\ job_id' = id
    /\ job_name' = "None"
    /\ failed_from' = "none"
    /\ flags' = f
    /\ base_jobs_to_run' = IF id \in DOMAIN IdToName THEN << IdToName[id] >> ELSE << >>
    /\ job_index' = 1
    /\ pc' = IF id \in DOMAIN IdToName THEN "loop" ELSE "unknown_id"
    /\ raised' = "none"
    /\ initialised' = {}
    /\ invoked' = NoneInvoked
    /\ ext_outcome' = NoOutcome
    /\ propagated' = NoOutcome
    /\ stale_running' = {i \in DOMAIN tracker : tracker[i] = "RUNNING"}
    /\ UNCHANGED << other_vars, query_vars, server_vars, available_jobs, tracker, mcp_vars >>

\* Variant: the error is raised without marking the record.
RemoteUnknownFail_Skipped ==
    /\ pc = "unknown_id"
    /\ failed_from' = StatusOf(tracker, job_id)
    /\ pc' = "unknown_failed"
    /\ UNCHANGED << other_vars, query_vars, server_vars, available_jobs, tracker, flags, base_jobs_to_run, job_index,
                    raised, initialised, invoked, ext_outcome, propagated,
                    stale_running, job_id, job_name, mcp_vars >>

\* Variant: the record is marked only when the tracker already has it.
RemoteUnknownFail_OnlyExisting ==
    /\ pc = "unknown_id"
    /\ failed_from' = StatusOf(tracker, job_id)
    /\ tracker' = IF job_id \in DOMAIN tracker THEN fail_job(tracker, job_id) ELSE tracker
    /\ pc' = "unknown_failed"
    /\ UNCHANGED << other_vars, query_vars, server_vars, available_jobs, flags, base_jobs_to_run, job_index, raised,
                    initialised, invoked, ext_outcome, propagated, stale_running,
                    job_id, job_name, mcp_vars >>

\* process_session, remote mode: job_id not in id_to_name: tracker.fail_job(job_id).
RemoteUnknownFail ==
    /\ pc = "unknown_id"
    /\ failed_from' = StatusOf(tracker, job_id)
    /\ tracker' = fail_job(tracker, job_id)
    /\ pc' = "unknown_failed"
    /\ UNCHANGED << other_vars, query_vars, server_vars, available_jobs, flags, base_jobs_to_run, job_index, raised,
                    initialised, invoked, ext_outcome, propagated, stale_running,
                    job_id, job_name, mcp_vars >>

\* process_session, remote mode: console.error(message, error=ValueError) raises.
RemoteUnknownRaise ==
    /\ pc = "unknown_failed"
    /\ raised' = "ValueError"
    /\ pc' = "raised"
    /\ UNCHANGED << other_vars, query_vars, server_vars, available_jobs, tracker, flags, base_jobs_to_run, job_index,
                    initialised, invoked, ext_outcome, propagated, stale_running,
                    call_vars, mcp_vars >>

\* A caller hands _execute_job a job name no branch matches: tracker.start_job(job_id)
\* is called and the if / elif chain falls through to the else branch.
ExecuteJobUnrecognised(name, id) ==
    /\ pc \in {"idle", "returned", "raised", "killed"}
    /\ ~Recognised(name)
    /\ job_name' = name
    /\ job_id' = id
    /\ failed_from' = "none"
    /\ tracker' = start_job(tracker, id)
    /\ flags' = {}
    /\ base_jobs_to_run' = << >>
    /\ job_index' = 1
    /\ pc' = "unrecognised"
    /\ raised' = "none"
    /\ initialised' = {}
    /\ invoked' = NoneInvoked
    /\ ext_outcome' = NoOutcome
    /\ propagated' = NoOutcome
    /\ stale_running' = {i \in DOMAIN tracker : tracker[i] = "RUNNING"}
    /\ UNCHANGED << other_vars, query_vars, server_vars, available_jobs, mcp_vars >>

\* Variant: the else branch does not raise, so complete_job is reached.
UnrecognisedJobRaises_Completes ==
    /\ pc = "unrecognised"
    /\ tracker' = complete_job(tracker, job_id)
    /\ pc' = "returned"
    /\ UNCHANGED << other_vars, query_vars, server_vars, available_jobs, flags, base_jobs_to_run, job_index, raised,
                    initialised, invoked, ext_outcome, propagated, stale_running,
                    call_vars, mcp_vars >>

\* _execute_job, else branch: console.error raises ValueError inside the try
\* block; except Exception: tracker.fail_job(job_id); raise.
UnrecognisedJobRaises ==
    /\ pc = "unrecognised"
    /\ failed_from' = StatusOf(tracker, job_id)
    /\ tracker' = fail_job(tracker, job_id)
    /\ raised' = "ValueError"
    /\ pc' = "raised"
    /\ UNCHANGED << other_vars, query_vars, server_vars, available_jobs, flags, base_jobs_to_run, job_index, initialised,
                    invoked, ext_outcome, propagated, stale_running, job_id, job_name,
                    mcp_vars >>

NextRemote ==
    \/ \E id \in TrackedIds, f \in RemoteFlags : ProcessSessionRemote(id, f)
    \/ RemoteUnknownFail
    \/ RemoteUnknownRaise
    \/ \E name \in JobNameInputs, id \in TrackedIds : ExecuteJobUnrecognised(name, id)
    \/ UnrecognisedJobRaises
    \/ ExecuteJobStart
    \/ ExtractorReturns
    \/ \E e \in Errors : ExtractorRaises(e)
    \/ ProcessSessionReturns
    \/ Interrupted

SpecRemote == InitRemote /\ [][NextRemote]_vars

(* ------------------------------ MCP server ----------------------------- *)

\* Parameters of pipeline._initialize_processing_tracker.
InitializeProcessingTrackerParams == {"session_path", "base_job_names"}

\* Keyword arguments _run_processing_in_background passes to it.
BackgroundInitializeKwargs == {"session_path", "session_name", "base_job_names"}

\* Thread.is_alive() of the latest thread of the session.
ThreadAlive == thread \in AliveStages

\* start_processing_tool: all-false flags are treated as all-true.
ToolRequestedJobs(f) == IF f = {} THEN Jobs ELSE f

\* start_processing_tool: requested AND available, in catalog order.
ToolBaseJobsToRun(requested, available) ==
    SelectSeq(JobList, LAMBDA b : b \in requested /\ b \in available)

\* The base_jobs_to_run list the latest thread was started with.
ThreadJobs == ToolBaseJobsToRun(ToolRequestedJobs(tool_flags), available_jobs)

\* Variant: a registered key is taken for a running session without asking
\* the thread whether it is alive.
StartRejectedInProgress_KeyOnly ==
    /\ tool_pc = "idle"
    /\ active_sessions
    /\ reply' = "Error: Processing already in progress"
    /\ UNCHANGED << other_vars, query_vars, server_vars, call_vars, available_jobs, tracker,
                    pipeline_vars, active_sessions, thread, tool_pc, tool_flags >>

\* start_processing_tool: the session key is registered and its thread is alive.
StartRejectedInProgress ==
    /\ tool_pc = "idle"
    /\ active_sessions /\ ThreadAlive
    /\ reply' = "Error: Processing already in progress"
    /\ UNCHANGED << other_vars, query_vars, server_vars, call_vars, available_jobs, tracker, pipeline_vars, active_sessions, thread,
                    tool_pc, tool_flags >>

\* start_processing_tool: a stale key is deleted; nothing requested is available.
StartRejectedNoJobs(f) ==
    /\ tool_pc = "idle"
    /\ ~(active_sessions /\ ThreadAlive)
    /\ ToolBaseJobsToRun(ToolRequestedJobs(f), available_jobs) = << >>
    /\ active_sessions' = FALSE
    /\ tool_flags' = f
    /\ reply' = "Error: No jobs available to run"
    /\ UNCHANGED << other_vars, query_vars, server_vars, call_vars, available_jobs, tracker, pipeline_vars, thread, tool_pc >>

\* Variant: the thread is created without looking at _active_sessions.
StartThread_Unguarded(f) ==
    /\ tool_pc = "idle"
    /\ ThreadAlive => lingering[thread] < MaxLingering
    /\ ToolBaseJobsToRun(ToolRequestedJobs(f), available_jobs) # << >>
    /\ active_sessions' = FALSE
    /\ tool_flags' = f
    /\ thread' = "running"
    /\ lingering' = IF ThreadAlive THEN [lingering EXCEPT ![thread] = @ + 1] ELSE lingering
    /\ tool_pc' = "register"
    /\ reply' = "none"
    /\ UNCHANGED << status_path, tracker_corrupt, legacy_vars, query_vars, server_vars,
                    call_vars, available_jobs, tracker, pipeline_vars >>

\* start_processing_tool: a stale key is deleted; the thread is created and
\* started. A thread of the session that is still alive with its key gone is
\* no longer referenced by the server and lingers until it ends.
StartThread(f) ==
    /\ tool_pc = "idle"
    /\ ~(active_sessions /\ ThreadAlive)
    /\ ThreadAlive => lingering[thread] < MaxLingering
    /\ ToolBaseJobsToRun(ToolRequestedJobs(f), available_jobs) # << >>
    /\ active_sessions' = FALSE
    /\ tool_flags' = f
    /\ thread' = "running"
    /\ lingering' = IF ThreadAlive THEN [lingering EXCEPT ![thread] = @ + 1] ELSE lingering
    /\ tool_pc' = "register"
    /\ reply' = "none"
    /\ UNCHANGED << status_path, tracker_corrupt, legacy_vars, query_vars, server_vars,
                    call_vars, available_jobs, tracker, pipeline_vars >>

\* start_processing_tool: _active_sessions[session_key] = thread; returns.
RegisterThread ==
    /\ tool_pc = "register"
    /\ active_sessions' = TRUE
    /\ tool_pc' = "idle"
    /\ reply' = "Processing started"
    /\ UNCHANGED << other_vars, query_vars, server_vars, call_vars, available_jobs, tracker, pipeline_vars, thread, tool_flags >>

\* _run_processing_in_background: the call of _initialize_processing_tracker
\* with a keyword the function does not have raises TypeError, which
\* except Exception: pass swallows; control goes to finally.
BackgroundInitializeRaises ==
    /\ thread = "running"
    /\ ~(BackgroundInitializeKwargs \subseteq InitializeProcessingTrackerParams)
    /\ thread' = "finally"
    /\ UNCHANGED << other_vars, query_vars, server_vars, call_vars, available_jobs, tracker, pipeline_vars, active_sessions,
                    tool_pc, tool_flags, reply >>

\* _run_processing_in_background: finally: _active_sessions.pop(session_key, None)
\* and the end of the thread, taken as one step (SpecThreads separates them).
BackgroundFinally ==
    /\ thread = "finally"
    /\ active_sessions' = FALSE
    /\ thread' = "dead"
    /\ UNCHANGED << other_vars, query_vars, server_vars, call_vars, available_jobs, tracker, pipeline_vars, tool_pc, tool_flags,
                    reply >>

(* ---------------------- MCP server, all sessions ----------------------- *)

\* Thread.is_alive() of the latest thread of session s.
IsAlive(s) == threads[s] \in {"running", "finally"}

\* _get_session_status: is_active.
IsActive(s) == s \in registered /\ IsAlive(s)

InProgressReply == "Error: Processing already in progress"

NoJobsReply == "Error: No jobs available to run"

pipeline_session_vars ==
    << available_jobs, tracker, pipeline_vars, call_vars, mcp_vars, query_vars,
       other_vars >>

\* Variant: the rejected request also forgets the live thread of the session.
ServerStartRejectedInProgress_Unregisters(s) ==
    /\ srv_pc = "idle"
    /\ IsActive(s)
    /\ registered' = registered \ {s}
    /\ srv_session' = s
    /\ srv_reply' = InProgressReply
    /\ UNCHANGED << pipeline_session_vars, threads, trackers, srv_pc, accepted >>

\* start_processing_tool(s): the key of s is registered and its thread is alive.
ServerStartRejectedInProgress(s) ==
    /\ srv_pc = "idle"
    /\ IsActive(s)
    /\ srv_session' = s
    /\ srv_reply' = InProgressReply
    /\ UNCHANGED << pipeline_session_vars, registered, threads, trackers, srv_pc, accepted >>

NoPathReply == "Error: Session path does not exist"

\* f"Error: {e}" for the exception SessionData.load raised.
LoadErrorReply == "Error: session data cannot be loaded"

\* start_processing_tool(s): Path(session_path).exists() is False.
ServerStartRejectedNoPath(s) ==
    /\ srv_pc = "idle"
    /\ srv_session' = s
    /\ srv_reply' = NoPathReply
    /\ UNCHANGED << pipeline_session_vars, registered, threads, trackers, srv_pc, accepted >>

\* Variant: the thread is started before the session is loaded.
ServerStartRejectedLoadError_Dispatches(s) ==
    /\ srv_pc = "idle"
    /\ ~IsActive(s)
    /\ registered' = registered \ {s}
    /\ threads' = [threads EXCEPT ![s] = "running"]
    /\ srv_session' = s
    /\ srv_reply' = LoadErrorReply
    /\ UNCHANGED << pipeline_session_vars, trackers, srv_pc, accepted >>

\* start_processing_tool(s): the path exists, a stale key of s is deleted, and
\* SessionData.load raises; except Exception as e returns the error.
ServerStartRejectedLoadError(s) ==
    /\ srv_pc = "idle"
    /\ ~IsActive(s)
    /\ registered' = registered \ {s}
    /\ srv_session' = s
    /\ srv_reply' = LoadErrorReply
    /\ UNCHANGED << pipeline_session_vars, threads, trackers, srv_pc, accepted >>

\* start_processing_tool(s) with its default flags (every process_* flag True):
\* a stale key of s is deleted; no job has its log file in s.
ServerStartRejectedNoJobs(s, available) ==
    /\ srv_pc = "idle"
    /\ ~IsActive(s)
    /\ ToolBaseJobsToRun(ToolRequestedJobs(Jobs), available) = << >>
    /\ registered' = registered \ {s}
    /\ srv_session' = s
    /\ srv_reply' = NoJobsReply
    /\ UNCHANGED << pipeline_session_vars, threads, trackers, srv_pc, accepted >>

\* start_processing_tool(s) with its default flags: a stale key of s is
\* deleted; the thread of s is created and started.
ServerStartThread(s, available) ==
    /\ srv_pc = "idle"
    /\ ~IsActive(s)
    /\ ToolBaseJobsToRun(ToolRequestedJobs(Jobs), available) # << >>
    /\ registered' = registered \ {s}
    /\ threads' = [threads EXCEPT ![s] = "running"]
    /\ srv_session' = s
    /\ srv_pc' = "register"
    /\ srv_reply' = "none"
    /\ accepted' = accepted \cup {s}
    /\ UNCHANGED << pipeline_session_vars, trackers >>

\* start_processing_tool: _active_sessions[session_key] = thread; returns.
ServerRegisterThread ==
    /\ srv_pc = "register"
    /\ registered' = registered \cup {srv_session}
    /\ srv_pc' = "idle"
    /\ srv_reply' = "Processing started"
    /\ UNCHANGED << pipeline_session_vars, threads, trackers, srv_session, accepted >>

\* _run_processing_in_background of session s: the call of
\* _initialize_processing_tracker raises TypeError, swallowed by except
\* Exception: pass; the tracker of s is not written.
ServerBackgroundInitializeRaises(s) ==
    /\ threads[s] = "running"
    /\ ~(BackgroundInitializeKwargs \subseteq InitializeProcessingTrackerParams)
    /\ threads' = [threads EXCEPT ![s] = "finally"]
    /\ UNCHANGED << pipeline_session_vars, registered, trackers, srv_pc, srv_session,
                    srv_reply, accepted >>

\* Variant: the clean-up of one worker empties the whole registry.
ServerBackgroundFinally_ClearsAll(s) ==
    /\ threads[s] = "finally"
    /\ registered' = {}
    /\ threads' = [threads EXCEPT ![s] = "dead"]
    /\ UNCHANGED << pipeline_session_vars, trackers, srv_pc, srv_session, srv_reply,
                    accepted >>

\* _run_processing_in_background of session s: finally:
\* _active_sessions.pop(session_key, None); the thread ends.
ServerBackgroundFinally(s) ==
    /\ threads[s] = "finally"
    /\ registered' = registered \ {s}
    /\ threads' = [threads EXCEPT ![s] = "dead"]
    /\ UNCHANGED << pipeline_session_vars, trackers, srv_pc, srv_session, srv_reply,
                    accepted >>

\* _get_session_status(s): a key whose thread is not alive is deleted.
GetSessionStatus(s) ==
    /\ srv_pc = "idle"
    /\ s \in registered
    /\ ~IsAlive(s)
    /\ registered' = registered \ {s}
    /\ UNCHANGED << pipeline_session_vars, threads, trackers, srv_pc, srv_session,
                    srv_reply, accepted >>

InitServer == Init /\ available_jobs = Jobs

NextServer ==
    \/ \E s \in Sessions : ServerStartRejectedInProgress(s)
    \/ \E s \in Sessions : ServerStartRejectedNoPath(s)
    \/ \E s \in Sessions : ServerStartRejectedLoadError(s)
    \/ \E s \in Sessions, available \in SUBSET Jobs :
          ServerStartRejectedNoJobs(s, available)
    \/ \E s \in Sessions, available \in SUBSET Jobs :
          ServerStartThread(s, available)
    \/ ServerRegisterThread
    \/ \E s \in Sessions : ServerBackgroundInitializeRaises(s)
    \/ \E s \in Sessions : ServerBackgroundFinally(s)
    \/ \E s \in Sessions : GetSessionStatus(s)

SpecServer == InitServer /\ [][NextServer]_vars

\* The operating system schedules every started thread, and a tool call that
\* has started its thread goes on to register it.
FairnessServer ==
    /\ WF_vars(ServerRegisterThread)
    /\ \A s \in Sessions : WF_vars(ServerBackgroundInitializeRaises(s))
    /\ \A s \in Sessions : WF_vars(ServerBackgroundFinally(s))

SpecServerFair == SpecServer /\ FairnessServer

(* ------------------------- _get_session_status ------------------------- *)

\* _get_session_status: the number of records of tracker t with status st.
StatusCount(t, st) == Cardinality({i \in DOMAIN t : t[i] = st})

\* Variant: any FAILED record makes the session FAILED, before PARTIAL is tried.
get_session_status_FailedFirst(is_active, t) ==
    IF DOMAIN t = {}
    THEN [status |-> "NOT_STARTED", completed |-> 0, total |-> 0,
          failed |-> 0, running |-> 0, pending |-> 0]
    ELSE LET succeeded_count == StatusCount(t, "SUCCEEDED")
             failed_count == StatusCount(t, "FAILED")
             running_count == StatusCount(t, "RUNNING")
             total_count == Cardinality(DOMAIN t)
             pending_count ==
                 Cardinality({i \in DOMAIN t : t[i] \notin {"SUCCEEDED", "FAILED", "RUNNING"}})
             status ==
                 IF is_active \/ running_count > 0 THEN "PROCESSING"
                 ELSE IF failed_count > 0 THEN "FAILED"
                 ELSE IF failed_count > 0 /\ succeeded_count > 0 THEN "PARTIAL"
                 ELSE IF succeeded_count = total_count THEN "SUCCEEDED"
                 ELSE IF pending_count > 0 THEN "PENDING"
                 ELSE "UNKNOWN"
         IN [status |-> status, completed |-> succeeded_count, total |-> total_count,
             failed |-> failed_count, running |-> running_count,
             pending |-> pending_count]

\* _get_session_status: the status, completed and total entries of the result,
\* with the other counters of the loop, for a session whose tracker file holds t (no file, or a file without jobs,
\* is the empty t) and whose is_active flag is as given.
get_session_status(is_active, t) ==
    IF DOMAIN t = {}
    THEN [status |-> "NOT_STARTED", completed |-> 0, total |-> 0,
          failed |-> 0, running |-> 0, pending |-> 0]
    ELSE LET succeeded_count == StatusCount(t, "SUCCEEDED")
             failed_count == StatusCount(t, "FAILED")
             running_count == StatusCount(t, "RUNNING")
             total_count == Cardinality(DOMAIN t)
             pending_count ==
                 Cardinality({i \in DOMAIN t : t[i] \notin {"SUCCEEDED", "FAILED", "RUNNING"}})
             status ==
                 IF is_active \/ running_count > 0 THEN "PROCESSING"
                 ELSE IF failed_count > 0 /\ succeeded_count > 0 THEN "PARTIAL"
                 ELSE IF failed_count > 0 THEN "FAILED"
                 ELSE IF succeeded_count = total_count THEN "SUCCEEDED"
                 ELSE IF pending_count > 0 THEN "PENDING"
                 ELSE "UNKNOWN"
         IN [status |-> status, completed |-> succeeded_count, total |-> total_count,
             failed |-> failed_count, running |-> running_count,
             pending |-> pending_count]

\* The session is queried with any tracker content, and with its key absent
\* from _active_sessions, registered with a live thread, or registered with a
\* thread that has ended.
InitStatus ==
    /\ available_jobs = Jobs
    /\ tracker \in Trackers
    /\ pc = "idle"
    /\ flags = {}
    /\ base_jobs_to_run = << >>
    /\ job_index = 1
    /\ raised = "none"
    /\ initialised = {}
    /\ invoked = NoneInvoked
    /\ ext_outcome = NoOutcome
    /\ propagated = NoOutcome
    /\ stale_running = {}
    /\ job_id = "None"
    /\ job_name = "None"
    /\ failed_from = "none"
    /\ \E registration \in {<< FALSE, "none" >>, << TRUE, "running" >>, << TRUE, "dead" >>} :
          /\ active_sessions = registration[1]
          /\ thread = registration[2]
    /\ tool_pc = "idle"
    /\ tool_flags = {}
    /\ reply = "none"
    /\ ServerIdle
    /\ NoQuery
    /\ NoOther

\* The paths a caller can name the session directory by: the root the executor
\* resolved, and another location or spelling of the same directory.
SessionPaths == {session_root, foreign_root}

\* _get_session_status: the identifier recomputed for base job b from the
\* session_path argument.
StatusJobId(path, b) == generate_job_id(path, FullJobName(b))

\* _get_session_status: id_to_name.
StatusIdToName(path) ==
    [i \in {StatusJobId(path, b) : b \in Jobs} |->
        CHOOSE b \in Jobs : StatusJobId(path, b) = i]

\* job_id[:8], the name shown for a record id_to_name does not know.
IdPrefix == "job_id[:8]"

\* _get_session_status: job_name = id_to_name.get(job_id, job_id[:8]), kept
\* together with the record it was computed for.
JobDisplayName(path, i) ==
    [shown |-> IF i \in DOMAIN StatusIdToName(path)
               THEN StatusIdToName(path)[i]
               ELSE IdPrefix,
     id |-> i]

\* current_job = "-", the value no RUNNING record replaced.
NoCurrentJob == [shown |-> "-", id |-> << >>]

\* Variant: current_job is assigned for every record, whatever its status.
CurrentJobs_AnyRecord(path, t) ==
    IF DOMAIN t = {}
    THEN {NoCurrentJob}
    ELSE {JobDisplayName(path, i) : i \in DOMAIN t}

\* _get_session_status: the values current_job can have after the loop; the
\* last RUNNING record in the order of the file wins.
CurrentJobs(path, t) ==
    IF \A i \in DOMAIN t : t[i] # "RUNNING"
    THEN {NoCurrentJob}
    ELSE {JobDisplayName(path, i) : i \in {j \in DOMAIN t : t[j] = "RUNNING"}}

\* get_processing_status_tool -> _get_session_status(session_path): a key whose
\* thread has ended is deleted; the status is derived from the tracker file.
GetSessionStatusOfSession(path) ==
    /\ tool_pc = "idle"
    /\ status_path' = path
    /\ \E current_job \in CurrentJobs(path, tracker) :
          LET counted == get_session_status(active_sessions /\ ThreadAlive, tracker)
          IN status_report' =
                 [status |-> counted.status, completed |-> counted.completed,
                  total |-> counted.total, failed |-> counted.failed,
                  running |-> counted.running, pending |-> counted.pending,
                  current_job |-> current_job]
    /\ active_sessions' = (active_sessions /\ ThreadAlive)
    /\ UNCHANGED << available_jobs, tracker, pipeline_vars, call_vars, server_vars,
                    thread, tool_pc, tool_flags, reply,
                    requested_workers, available_cores, job_workers,
                    lingering, tracker_corrupt, legacy_vars >>

NextStatus == \E path \in SessionPaths : GetSessionStatusOfSession(path)

SpecStatus == InitStatus /\ [][NextStatus]_vars

(* ----------------------- corrupt tracker file -------------------------- *)

\* What a reader of a tracker file that cannot be parsed raises.
TrackerCorrupt == "TrackerCorrupt"

\* What get_processing_status_tool returns when _get_session_status raised.
ErrorReport == [status |-> "Error", completed |-> 0, total |-> 0]

\* The tracker file of the session exists and cannot be parsed.
InitCorrupt ==
    /\ available_jobs \in SUBSET Jobs
    /\ tracker = EmptyTracker
    /\ pc = "idle"
    /\ flags = {}
    /\ base_jobs_to_run = << >>
    /\ job_index = 1
    /\ raised = "none"
    /\ initialised = {}
    /\ invoked = NoneInvoked
    /\ ext_outcome = NoOutcome
    /\ propagated = NoOutcome
    /\ stale_running = {}
    /\ job_id = "None"
    /\ job_name = "None"
    /\ failed_from = "none"
    /\ active_sessions = FALSE
    /\ thread = "none"
    /\ tool_pc = "idle"
    /\ tool_flags = {}
    /\ reply = "none"
    /\ ServerIdle
    /\ NoQuery
    /\ status_path = session_root
    /\ lingering = NoLingering
    /\ tracker_corrupt = TRUE
    /\ NoLegacy

\* get_processing_status_tool -> _get_session_status: a key whose thread has
\* ended is deleted; ProcessingTracker.from_yaml raises on the corrupt file and
\* except Exception as e: return f"Error: {e}" answers the query.
GetSessionStatusCorrupt ==
    /\ tool_pc = "idle"
    /\ tracker_corrupt
    /\ status_report' = ErrorReport
    /\ active_sessions' = (active_sessions /\ ThreadAlive)
    /\ UNCHANGED << available_jobs, tracker, pipeline_vars, call_vars, server_vars,
                    thread, tool_pc, tool_flags, reply,
                    requested_workers, available_cores, job_workers, other_vars >>

\* process_session -> _initialize_processing_tracker: initialize_jobs reads the
\* corrupt file and raises; nothing in process_session catches the exception.
InitializeProcessingTrackerCorrupt ==
    /\ pc = "tracker_init"
    /\ tracker_corrupt
    /\ pc' = "raised"
    /\ raised' = TrackerCorrupt
    /\ UNCHANGED << other_vars, query_vars, server_vars, call_vars, available_jobs, tracker,
                    flags, base_jobs_to_run, job_index, initialised, invoked, ext_outcome,
                    propagated, stale_running, mcp_vars >>

NextCorrupt ==
    \/ \E f \in SUBSET Jobs : ProcessSession(f)
    \/ InitializeProcessingTrackerCorrupt
    \/ GetSessionStatusCorrupt
    \/ StartRejectedInProgress
    \/ \E f \in SUBSET Jobs : StartRejectedNoJobs(f)
    \/ \E f \in SUBSET Jobs : StartThread(f)
    \/ RegisterThread
    \/ BackgroundInitializeRaises
    \/ BackgroundFinally

SpecCorrupt == InitCorrupt /\ [][NextCorrupt]_vars

(* ------------------- background thread life cycle ---------------------- *)

\* _run_processing_in_background: finally: _active_sessions.pop(session_key,
\* None); the thread is still alive when the key is gone.
BackgroundFinallyPop ==
    /\ thread = "finally"
    /\ active_sessions' = FALSE
    /\ thread' = "exiting"
    /\ UNCHANGED << other_vars, query_vars, server_vars, call_vars, available_jobs, tracker,
                    pipeline_vars, tool_pc, tool_flags, reply >>

\* _run_processing_in_background returns: the latest thread ends.
BackgroundThreadExit ==
    /\ thread = "exiting"
    /\ thread' = "dead"
    /\ UNCHANGED << other_vars, query_vars, server_vars, call_vars, available_jobs, tracker,
                    pipeline_vars, active_sessions, tool_pc, tool_flags, reply >>

\* _run_processing_in_background returns in a superseded thread.
LingeringThreadExit ==
    /\ lingering["exiting"] > 0
    /\ lingering' = [lingering EXCEPT !["exiting"] = @ - 1]
    /\ UNCHANGED << status_path, tracker_corrupt, legacy_vars, query_vars, server_vars,
                    call_vars, available_jobs, tracker, pipeline_vars, mcp_vars >>

\* The tracker contents of a session the server is asked about: no file, or
\* the records a run left behind.
ThreadTrackers ==
    {EmptyTracker} \cup {[i \in DOMAIN IdToName |-> st] : st \in {"PENDING", "SUCCEEDED"}}

InitThreads ==
    /\ available_jobs \in {{}, Jobs}
    /\ tracker \in ThreadTrackers
    /\ pc = "idle"
    /\ flags = {}
    /\ base_jobs_to_run = << >>
    /\ job_index = 1
    /\ raised = "none"
    /\ initialised = {}
    /\ invoked = NoneInvoked
    /\ ext_outcome = NoOutcome
    /\ propagated = NoOutcome
    /\ stale_running = {}
    /\ job_id = "None"
    /\ job_name = "None"
    /\ failed_from = "none"
    /\ active_sessions = FALSE
    /\ thread = "none"
    /\ tool_pc = "idle"
    /\ tool_flags = {}
    /\ reply = "none"
    /\ ServerIdle
    /\ NoQuery
    /\ NoOther

\* Tool calls are served one at a time; the thread steps interleave with them.
NextThreads ==
    \/ StartRejectedInProgress
    \/ \E f \in SUBSET Jobs : StartRejectedNoJobs(f)
    \/ \E f \in SUBSET Jobs : StartThread(f)
    \/ RegisterThread
    \/ BackgroundInitializeRaises
    \/ BackgroundFinallyPop
    \/ BackgroundThreadExit
    \/ LingeringThreadExit
    \/ \E path \in SessionPaths : GetSessionStatusOfSession(path)

SpecThreads == InitThreads /\ [][NextThreads]_vars

(* ----------------------- cli.extract_log_data -------------------------- *)

\* What can end the try block early: an exception of a worker or of a file
\* reader, or an interrupt of the process.
LegacyErrors == Errors \cup {"KeyboardInterrupt"}

\* The session passes both support checks.
LegacySupported == legacy_call.system # "unsupported" /\ legacy_call.type_supported

\* extract_log_data(session_data, manager_id, ...): tracker.start(manager_id)
\* marks the tracker file as running, whatever an earlier runtime left in it.
ExtractLogData(call) ==
    /\ legacy_pc \in {"idle", "returned", "raised"}
    /\ legacy_call' = call
    /\ legacy_done' = 0
    /\ legacy_tracker' = "running"
    /\ legacy_raised' = "none"
    /\ legacy_pc' = "try"
    /\ UNCHANGED << available_jobs, tracker, pipeline_vars, call_vars, mcp_vars, server_vars,
                    query_vars, status_path, lingering, tracker_corrupt >>

\* The acquisition system or the session type is not supported:
\* console.error(message, error=ValueError) raises.
LegacyUnsupported ==
    /\ legacy_pc = "try"
    /\ ~LegacySupported
    /\ legacy_raised' = "ValueError"
    /\ legacy_pc' = "finally"
    /\ UNCHANGED << available_jobs, tracker, pipeline_vars, call_vars, mcp_vars, server_vars,
                    query_vars, status_path, lingering, tracker_corrupt,
                    legacy_call, legacy_done, legacy_tracker >>

\* Reading the hardware state or the experiment configuration raises, or the
\* process is interrupted.
LegacyLoadRaises(e) ==
    /\ legacy_pc = "try"
    /\ LegacySupported
    /\ legacy_raised' = e
    /\ legacy_pc' = "finally"
    /\ UNCHANGED << available_jobs, tracker, pipeline_vars, call_vars, mcp_vars, server_vars,
                    query_vars, status_path, lingering, tracker_corrupt,
                    legacy_call, legacy_done, legacy_tracker >>

\* if len(compressed_files) == 0: return; control goes to finally.
LegacyNoFiles ==
    /\ legacy_pc = "try"
    /\ LegacySupported
    /\ legacy_call.files = 0
    /\ legacy_pc' = "finally"
    /\ UNCHANGED << available_jobs, tracker, pipeline_vars, call_vars, mcp_vars, server_vars,
                    query_vars, status_path, lingering, tracker_corrupt,
                    legacy_call, legacy_done, legacy_tracker, legacy_raised >>

\* A supported system other than Mesoscope-VR: the else branch raises
\* NotImplementedError through console.error.
LegacyNotImplemented ==
    /\ legacy_pc = "try"
    /\ LegacySupported
    /\ legacy_call.files > 0
    /\ legacy_call.system = "other"
    /\ legacy_raised' = "NotImplementedError"
    /\ legacy_pc' = "finally"
    /\ UNCHANGED << available_jobs, tracker, pipeline_vars, call_vars, mcp_vars, server_vars,
                    query_vars, status_path, lingering, tracker_corrupt,
                    legacy_call, legacy_done, legacy_tracker >>

\* Mesoscope-VR: the log files are submitted to the ProcessPoolExecutor.
LegacySubmit ==
    /\ legacy_pc = "try"
    /\ LegacySupported
    /\ legacy_call.files > 0
    /\ legacy_call.system = "mesoscope-vr"
    /\ legacy_pc' = "processing"
    /\ UNCHANGED << available_jobs, tracker, pipeline_vars, call_vars, mcp_vars, server_vars,
                    query_vars, status_path, lingering, tracker_corrupt,
                    legacy_call, legacy_done, legacy_tracker, legacy_raised >>

\* for future in as_completed(futures): future.result() returns.
LegacyFutureDone ==
    /\ legacy_pc = "processing"
    /\ legacy_done < legacy_call.files
    /\ legacy_done' = legacy_done + 1
    /\ UNCHANGED << available_jobs, tracker, pipeline_vars, call_vars, mcp_vars, server_vars,
                    query_vars, status_path, lingering, tracker_corrupt,
                    legacy_pc, legacy_call, legacy_tracker, legacy_raised >>

\* future.result() propagates the exception of a worker, or the process is
\* interrupted while it waits.
LegacyFutureRaises(e) ==
    /\ legacy_pc = "processing"
    /\ legacy_done < legacy_call.files
    /\ legacy_raised' = e
    /\ legacy_pc' = "finally"
    /\ UNCHANGED << available_jobs, tracker, pipeline_vars, call_vars, mcp_vars, server_vars,
                    query_vars, status_path, lingering, tracker_corrupt,
                    legacy_call, legacy_done, legacy_tracker >>

\* After the last future: tracker.stop(manager_id) marks the runtime complete.
LegacyStop ==
    /\ legacy_pc = "processing"
    /\ legacy_done = legacy_call.files
    /\ legacy_tracker' = "complete"
    /\ legacy_pc' = "finally"
    /\ UNCHANGED << available_jobs, tracker, pipeline_vars, call_vars, mcp_vars, server_vars,
                    query_vars, status_path, lingering, tracker_corrupt,
                    legacy_call, legacy_done, legacy_raised >>

\* finally: if tracker.is_running: tracker.error(manager_id); the manifest is
\* regenerated when update_manifest is set; the function returns or the
\* exception goes on to the caller.
LegacyFinally ==
    /\ legacy_pc = "finally"
    /\ legacy_tracker' = IF legacy_tracker = "running" THEN "error" ELSE legacy_tracker
    /\ legacy_pc' = IF legacy_raised = "none" THEN "returned" ELSE "raised"
    /\ UNCHANGED << available_jobs, tracker, pipeline_vars, call_vars, mcp_vars, server_vars,
                    query_vars, status_path, lingering, tracker_corrupt,
                    legacy_call, legacy_done, legacy_raised >>

NextLegacy ==
    \/ \E call \in LegacyCalls : ExtractLogData(call)
    \/ LegacyUnsupported
    \/ \E e \in LegacyErrors : LegacyLoadRaises(e)
    \/ LegacyNoFiles
    \/ LegacyNotImplemented
    \/ LegacySubmit
    \/ LegacyFutureDone
    \/ \E e \in LegacyErrors : LegacyFutureRaises(e)
    \/ LegacyStop
    \/ LegacyFinally

SpecLegacy == Init /\ [][NextLegacy]_vars

(* ----------------------- _calculate_job_workers ------------------------ *)

InitWorkers ==
    /\ available_jobs = Jobs
    /\ tracker = EmptyTracker
    /\ pc = "idle"
    /\ flags = {}
    /\ base_jobs_to_run = << >>
    /\ job_index = 1
    /\ raised = "none"
    /\ initialised = {}
    /\ invoked = NoneInvoked
    /\ ext_outcome = NoOutcome
    /\ propagated = NoOutcome
    /\ stale_running = {}
    /\ job_id = "None"
    /\ job_name = "None"
    /\ failed_from = "none"
    /\ active_sessions = FALSE
    /\ thread = "none"
    /\ tool_pc = "idle"
    /\ tool_flags = {}
    /\ reply = "none"
    /\ ServerIdle
    /\ requested_workers \in RequestedWorkers
    /\ available_cores \in CpuCounts \cup {NoneCores}
    /\ job_workers = 0
    /\ status_report = NoReport
    /\ NoOther

\* start_processing_tool: job_workers = _calculate_job_workers(requested_workers=workers).
CalculateJobWorkers ==
    /\ job_workers = 0
    /\ job_workers' = calculate_job_workers(requested_workers, available_cores)
    /\ UNCHANGED << available_jobs, tracker, pipeline_vars, call_vars, mcp_vars, server_vars,
                    requested_workers, available_cores, status_report, other_vars >>

NextWorkers == CalculateJobWorkers

SpecWorkers == InitWorkers /\ [][NextWorkers]_vars

(* ---------------------------- specification ---------------------------- *)

Next ==
    \/ \E f \in SUBSET Jobs : ProcessSession(f)
    \/ InitializeProcessingTracker
    \/ ExecuteJobStart
    \/ ExtractorReturns
    \/ \E e \in Errors : ExtractorRaises(e)
    \/ ProcessSessionReturns
    \/ Interrupted
    \/ StartRejectedInProgress
    \/ \E f \in SUBSET Jobs : StartRejectedNoJobs(f)
    \/ \E f \in SUBSET Jobs : StartThread(f)
    \/ RegisterThread
    \/ BackgroundInitializeRaises
    \/ BackgroundFinally

Spec == Init /\ [][Next]_vars

TypeOK ==
    /\ available_jobs \subseteq Jobs
    /\ \A i \in DOMAIN tracker : tracker[i] \in JobStatus
    /\ pc \in {"idle", "tracker_init", "loop", "extractor", "returned", "raised", "killed",
              "unknown_id", "unknown_failed", "unrecognised"}
    /\ job_index \in 1..(NumJobs + 1)
    /\ raised \in Errors \cup {"none", TrackerCorrupt}
    /\ thread \in {"none", "dead"} \cup AliveStages
    /\ \A stage \in AliveStages : lingering[stage] \in 0..MaxLingering
    /\ tool_pc \in {"idle", "register"}
    /\ registered \subseteq Sessions
    /\ accepted \subseteq Sessions
    /\ \A s \in Sessions : threads[s] \in {"none", "running", "finally", "dead"}
    /\ srv_pc \in {"idle", "register"}
    /\ srv_session \in Sessions \cup {0}


(* ------------------------------ properties ----------------------------- *)

RunningIds == {i \in DOMAIN tracker : tracker[i] = "RUNNING"}

\* process_session has exited by return or by an Exception that propagated.
ExitedOrdinarily == pc \in {"returned", "raised"}

\* The jobs whose extractor this run invoked.
Attempted == {b \in Jobs : invoked[b] > 0}

\* {k : requested[k] and available[k]} for the flags of this run.
ToRun == {b \in Jobs : b \in RequestedJobs(flags) /\ b \in available_jobs}

\* C1 (as stated): a RUNNING record changes only to SUCCEEDED or FAILED, never
\* back to PENDING, and a terminal record never changes directly to RUNNING;
\* this also over a re-run of an interrupted session.
C1_Original ==
    [][\A i \in DOMAIN tracker :
          /\ tracker[i] = "RUNNING" => tracker'[i] \in {"RUNNING"} \cup Terminal
          /\ tracker[i] \in Terminal => tracker'[i] # "RUNNING"]_vars

\* C1 (amended): a RUNNING record changes only to SUCCEEDED or FAILED, except
\* that the initialize_jobs of a new run resets it to PENDING when the job is in
\* the new run; a terminal record never changes directly to RUNNING.
C1_RunningLeavesToTerminalOrReinitialised ==
    [][\A i \in DOMAIN tracker :
          /\ i \in DOMAIN tracker'
          /\ tracker[i] = "RUNNING" =>
                \/ tracker'[i] \in {"RUNNING"} \cup Terminal
                \/ pc = "tracker_init" /\ i \in initialised' /\ tracker'[i] = "PENDING"
          /\ tracker[i] \in Terminal => tracker'[i] # "RUNNING"]_vars

\* A record left RUNNING by an interrupted run was re-initialised by the next
\* run and has reached a terminal status in it.
C1_Witness ==
    \E i \in stale_running \cap initialised : tracker[i] \in Terminal

\* C2 (as stated): whenever the process that executed a job has exited, for any
\* reason, the persisted record of that job is not RUNNING.
C2_Original ==
    pc \in {"returned", "raised", "killed"} =>
        \A b \in Attempted : Rec(b) # "RUNNING"

\* C2 (amended): whenever the process that executed a job has exited because
\* process_session returned or an Exception propagated out of it, the persisted
\* record of that job is not RUNNING.
C2_OrdinaryExitLeavesNoRunning ==
    ExitedOrdinarily => \A b \in Attempted : Rec(b) # "RUNNING"

\* The process exited with an exception after it had executed two jobs.
C2_Witness ==
    pc = "raised" /\ Cardinality(Attempted) >= 2

\* C3: when _execute_job has exited, a job whose extractor returned is
\* SUCCEEDED and no exception reached the caller; a job whose extractor raised
\* is FAILED and that same exception reached the caller.
C3_ExecuteJobOutcome ==
    \A b \in Jobs :
        /\ ext_outcome[b] = "returned" =>
              Rec(b) = "SUCCEEDED" /\ propagated[b] = "none"
        /\ ext_outcome[b] \in Errors =>
              Rec(b) = "FAILED" /\ propagated[b] = ext_outcome[b]

\* One job of the run returned normally and another one raised.
C3_Witness ==
    \E b, c \in Jobs : ext_outcome[b] = "returned" /\ ext_outcome[c] \in Errors

\* C4: while an extractor is running the record of its job is RUNNING, and no
\* job whose extractor was invoked in this run is still PENDING or absent.
C4_RunningPersistedBeforeExtractor ==
    /\ pc = "extractor" => Rec(CurrentJob) = "RUNNING"
    /\ \A b \in Attempted : Rec(b) \notin {"PENDING", "ABSENT"}

\* The extractor of the second job of a run is in progress.
C4_Witness ==
    pc = "extractor" /\ job_index = 2

\* C5 (as stated): when an extractor has raised in a run that has ended, every
\* job of to_run was attempted and none is left PENDING.
C5_Original ==
    (ExitedOrdinarily /\ \E b \in Jobs : ext_outcome[b] \in Errors) =>
        \A b \in Range(base_jobs_to_run) : invoked[b] = 1 /\ Rec(b) \in Terminal

C7_Original ==
    /\ (ExitedOrdinarily /\ flags = {}) => \A b \in available_jobs : invoked[b] = 1
    /\ (thread = "dead" /\ reply = "Processing started" /\ tool_flags = {}) =>
           \A b \in available_jobs : Rec(b) \in Terminal

C9_Original ==
    ExitedOrdinarily =>
        /\ initialised = {JobId(b) : b \in ToRun}
        /\ Attempted = ToRun
        /\ \A b \in ToRun : invoked[b] = 1

\* C10: process_session returns (echoing the success message) only when every
\* job of the run was attempted and its record is SUCCEEDED.
C10_SuccessOnlyIfAllSucceeded ==
    pc = "returned" =>
        /\ Attempted = Range(base_jobs_to_run)
        /\ \A b \in Attempted : Rec(b) = "SUCCEEDED"

\* process_session returned from a run of at least two jobs.
C10_Witness ==
    pc = "returned" /\ Len(base_jobs_to_run) >= 2

\* A direct call of _execute_job with an unrecognised job name is in progress
\* or was the last call.
DirectCall == job_name # "None"

\* process_session was called with a job_id that matches no job of the session.
UnknownIdCall == job_id \in UnknownIds /\ job_name = "None"

\* C11: _execute_job with a job name no catalog member matches invokes no
\* extractor, never returns normally, and when it has exited a ValueError has
\* reached the caller and the record of the job is FAILED.
C11_UnrecognisedJobFails ==
    DirectCall =>
        /\ ~Recognised(job_name)
        /\ invoked = NoneInvoked
        /\ pc \in {"unrecognised", "raised"}
        /\ pc = "raised" =>
              raised = "ValueError" /\ StatusOf(tracker, job_id) = "FAILED"

\* _execute_job was given an unrecognised name for a PENDING record, started it
\* and has exited.
C11_Witness ==
    DirectCall /\ pc = "raised" /\ failed_from = "RUNNING"

\* C12: process_session with a job_id that matches no job of the session marks
\* the record of that identifier FAILED before it raises, raises ValueError to
\* the caller, invokes no extractor and changes no other record.
C12_UnknownJobIdFails ==
    /\ [](UnknownIdCall =>
            /\ pc \in {"unknown_id", "unknown_failed", "raised"}
            /\ invoked = NoneInvoked
            /\ pc = "unknown_id" => raised = "none"
            /\ pc = "unknown_failed" =>
                  raised = "none" /\ StatusOf(tracker, job_id) = "FAILED"
            /\ pc = "raised" =>
                  raised = "ValueError" /\ StatusOf(tracker, job_id) = "FAILED")
    /\ [][(UnknownIdCall /\ UnknownIdCall') =>
            /\ DOMAIN tracker' \subseteq (DOMAIN tracker) \cup {job_id}
            /\ \A i \in (DOMAIN tracker) \ {job_id} :
                  i \in DOMAIN tracker' /\ tracker'[i] = tracker[i]]_vars

\* The call has raised for an identifier that had no record, next to a record
\* of a catalog job that is not FAILED.
C12_Witness ==
    /\ UnknownIdCall /\ pc = "raised" /\ failed_from = "ABSENT"
    /\ \E b \in Jobs : Rec(b) \in {"PENDING", "RUNNING", "SUCCEEDED"}

\* C13: whatever the record of x was when an error path called fail_job(x)
\* (absent, PENDING, RUNNING, SUCCEEDED or FAILED), the tracker then has a
\* record for x and its status is FAILED.
C13_FailJobFromAnyState ==
    failed_from # "none" =>
        /\ failed_from \in JobStatus \cup {"ABSENT"}
        /\ job_id \in DOMAIN tracker
        /\ tracker[job_id] = "FAILED"

\* fail_job was called on a record that was SUCCEEDED.
C13_Witness ==
    failed_from = "SUCCEEDED" /\ pc = "unknown_failed"

ActiveSessions == {s \in Sessions : IsActive(s)}

\* Accepted sessions whose thread has not been started.
QueuedSessions == {s \in accepted : threads[s] = "none"}

\* Accepted sessions whose thread has ended with every record SUCCEEDED.
CompletedSessions ==
    {s \in accepted : /\ ~IsAlive(s)
                      /\ trackers[s] # EmptyTracker
                      /\ \A i \in DOMAIN trackers[s] : trackers[s][i] = "SUCCEEDED"}

\* Accepted sessions whose thread has ended with a FAILED record.
FailedSessions ==
    {s \in accepted : /\ ~IsAlive(s)
                      /\ \E i \in DOMAIN trackers[s] : trackers[s][i] = "FAILED"}

\* Some step of start_processing_tool(s) that reads the request.
StartRequest(s) ==
    \/ ServerStartRejectedInProgress(s)
    \/ \E available \in SUBSET Jobs : ServerStartRejectedNoJobs(s, available)
    \/ \E available \in SUBSET Jobs : ServerStartThread(s, available)

\* C17 (as stated): the number of active sessions is at most max_parallel.
C17_Original ==
    Cardinality(ActiveSessions) <= max_parallel_sessions

\* C18 (as stated): every submitted session is in exactly one of active,
\* queued, completed and failed, so the sizes of the four add up to the number
\* of submitted sessions.
C18_Original ==
    Cardinality({s \in accepted : IsAlive(s)}) + Cardinality(QueuedSessions)
        + Cardinality(CompletedSessions) + Cardinality(FailedSessions)
    = Cardinality(accepted)

C21_Original ==
    \A s \in Sessions :
        (s \in accepted) ~> (s \in CompletedSessions \cup FailedSessions)

\* C22: the failure of the worker of one session changes neither the thread,
\* nor the registration, nor the tracker of any other session.
C22_WorkerFailureLeavesOthersAlone ==
    [][\A s \in Sessions :
          (IsAlive(s) /\ threads'[s] # threads[s]) =>
              \A t \in Sessions \ {s} :
                  /\ threads'[t] = threads[t]
                  /\ t \in registered' <=> t \in registered
                  /\ trackers'[t] = trackers[t]]_vars

\* The worker of one session has failed and ended while another session is
\* still registered with a live thread.
C22_Witness ==
    \E s, t \in Sessions : threads[s] = "dead" /\ s \in accepted /\ IsActive(t)

\* C23 (as stated): no interleaving of a worker with the start operation leaves
\* a state that no serial order of them could produce; serially, the key of a
\* session is registered before its worker removes it, so once the start
\* operation has returned a registered key has a thread that has not ended.
C23_Original ==
    srv_pc = "idle" => \A s \in registered : threads[s] # "dead"

\* C25 (as stated): whatever the CPU count and the requested worker count, the
\* worker budgets of the sessions active at once add up to at most the CPU
\* count plus one job's budget.
C25_Original ==
    \A cores \in CpuCounts \ {0}, requested \in RequestedWorkers :
        Cardinality(ActiveSessions) * calculate_job_workers(requested, cores)
            <= cores + MAXIMUM_JOB_CORES

\* C26: the worker budget is min(requested, max_job_cores) for a positive
\* request, reserved_cores when the CPU count is unknown, and otherwise
\* min(max(1, cpu_count - reserved_cores), max_job_cores); it always lies in
\* 1..max_job_cores.
C26_JobWorkersInRange ==
    job_workers # 0 =>
        /\ job_workers \in 1..MAXIMUM_JOB_CORES
        /\ requested_workers > 0 =>
              /\ requested_workers <= MAXIMUM_JOB_CORES => job_workers = requested_workers
              /\ requested_workers > MAXIMUM_JOB_CORES => job_workers = MAXIMUM_JOB_CORES
        /\ (requested_workers <= 0 /\ available_cores = NoneCores) =>
              job_workers = RESERVED_CORES
        /\ (requested_workers <= 0 /\ available_cores # NoneCores) =>
              /\ available_cores - RESERVED_CORES < 1 => job_workers = 1
              /\ available_cores - RESERVED_CORES \in 1..MAXIMUM_JOB_CORES =>
                    job_workers = available_cores - RESERVED_CORES
              /\ available_cores - RESERVED_CORES > MAXIMUM_JOB_CORES =>
                    job_workers = MAXIMUM_JOB_CORES

\* A request above the cap was answered with the cap.
C26_Witness ==
    requested_workers > MAXIMUM_JOB_CORES /\ job_workers = MAXIMUM_JOB_CORES

\* _get_session_status has returned for the session.
Reported == status_report.status # "none"

\* is_active of the session: its key is registered with a live thread.
IsActiveNow == active_sessions /\ ThreadAlive

AllRecords(statuses) == \A i \in DOMAIN tracker : tracker[i] \in statuses

SomeRecord(st) == \E i \in DOMAIN tracker : tracker[i] = st

\* C27 (as stated): for a session that is not queued, no tracker file gives
\* NOT_STARTED, records that are all PENDING give PENDING, one RUNNING record
\* gives PROCESSING, and terminal records with at least one SUCCEEDED and at
\* least one FAILED give PARTIAL.
C27_Original ==
    Reported =>
        /\ DOMAIN tracker = {} => status_report.status = "NOT_STARTED"
        /\ (DOMAIN tracker # {} /\ AllRecords({"PENDING"})) =>
              status_report.status = "PENDING"
        /\ StatusCount(tracker, "RUNNING") = 1 => status_report.status = "PROCESSING"
        /\ (AllRecords(Terminal) /\ SomeRecord("SUCCEEDED") /\ SomeRecord("FAILED")) =>
              status_report.status = "PARTIAL"

\* C27 (amended): no tracker file gives NOT_STARTED and one RUNNING record
\* gives PROCESSING; for a session that is not active in the server, records
\* that are all PENDING give PENDING, and terminal records with at least one
\* SUCCEEDED and at least one FAILED give PARTIAL.
C27_StatusOfInactiveSession ==
    Reported =>
        /\ DOMAIN tracker = {} => status_report.status = "NOT_STARTED"
        /\ (~IsActiveNow /\ DOMAIN tracker # {} /\ AllRecords({"PENDING"})) =>
              status_report.status = "PENDING"
        /\ StatusCount(tracker, "RUNNING") = 1 => status_report.status = "PROCESSING"
        /\ (~IsActiveNow /\ AllRecords(Terminal)
                /\ SomeRecord("SUCCEEDED") /\ SomeRecord("FAILED")) =>
              status_report.status = "PARTIAL"

\* A session that is not active was reported PARTIAL for terminal records.
C27_Witness ==
    /\ Reported /\ ~IsActiveNow /\ AllRecords(Terminal)
    /\ SomeRecord("SUCCEEDED") /\ SomeRecord("FAILED")
    /\ status_report.status = "PARTIAL"

\* C28 (as stated): a session that is actively running or has a RUNNING record
\* is reported PROCESSING whatever its tracker holds.
C28_Original ==
    (Reported /\ (IsActiveNow \/ SomeRecord("RUNNING"))) =>
        status_report.status = "PROCESSING"

\* C29 (as stated): for a session that is not active and has no RUNNING record,
\* FAILED is reported only for terminal records with a FAILED and no SUCCEEDED
\* one, PARTIAL only for terminal records that mix the two, SUCCEEDED only when
\* every record is SUCCEEDED, and PENDING when records exist that are not all
\* terminal.
C29_Original ==
    (Reported /\ ~IsActiveNow /\ ~SomeRecord("RUNNING")) =>
        /\ status_report.status = "FAILED" =>
              AllRecords(Terminal) /\ SomeRecord("FAILED") /\ ~SomeRecord("SUCCEEDED")
        /\ status_report.status = "PARTIAL" =>
              AllRecords(Terminal) /\ SomeRecord("FAILED") /\ SomeRecord("SUCCEEDED")
        /\ status_report.status = "SUCCEEDED" =>
              DOMAIN tracker # {} /\ AllRecords({"SUCCEEDED"})
        /\ (DOMAIN tracker # {} /\ ~AllRecords(Terminal)) =>
              status_report.status = "PENDING"

\* The background thread of the latest accepted start request has ended.
AttemptEnded == thread = "dead" /\ tool_pc = "idle"

\* C31 (as stated): with a corrupt tracker file, a status query and an
\* execution attempt both surface an error: the query is never answered
\* NOT_STARTED, a process_session call ends with an exception, a start request
\* whose thread has ended did not leave "Processing started" as its only
\* answer, and the file is never reset.
C31_Original ==
    tracker_corrupt =>
        /\ Reported => status_report = ErrorReport
        /\ pc \in {"returned", "raised"} => raised # "none"
        /\ AttemptEnded => reply # "Processing started"
        /\ tracker = EmptyTracker

\* The replies of a start request whose path is missing or is not a session.
BadPathReplies == {NoPathReply, LoadErrorReply}

\* C32: a start request answered with a missing-path or session-load error
\* starts no thread, adds no key to _active_sessions, accepts nothing and
\* leaves every tracker file as it was; the tool is back in its idle position.
C32_BadPathRejectedBeforeDispatch ==
    [][(/\ srv_reply' \in BadPathReplies
        /\ << srv_reply, srv_session >>' # << srv_reply, srv_session >>)
       => /\ threads' = threads
          /\ trackers' = trackers
          /\ accepted' = accepted
          /\ registered' \subseteq registered
          /\ srv_pc' = "idle"]_vars

\* A session that was never started is refused for its path while another
\* session has a live registered thread.
C32_Witness ==
    /\ srv_reply \in BadPathReplies
    /\ srv_session \in Sessions
    /\ threads[srv_session] = "none"
    /\ srv_session \notin registered
    /\ \E s \in registered : IsAlive(s)

\* C33 (as stated): the identifier the status reporter recomputes for every
\* catalog job equals the identifier under which the executor keeps the job's
\* record, so a catalog job that is the one RUNNING record is reported as the
\* current job under its own name.
C33_Original ==
    Reported =>
        \A b \in Jobs :
            /\ StatusJobId(status_path, b) = JobId(b)
            /\ RunningIds = {JobId(b)} => status_report.current_job.shown = b

\* C36: for a tracker with at least one record the report has completed = the
\* number of SUCCEEDED records and total = the number of records, with
\* 0 <= completed <= total; the four counters sum to total; current_job is
\* taken from a RUNNING record when there is one and is "-" otherwise; the
\* status is never UNKNOWN.
C36_CountersAndCurrentJob ==
    (Reported /\ DOMAIN tracker # {}) =>
        /\ status_report.completed = StatusCount(tracker, "SUCCEEDED")
        /\ status_report.total = Cardinality(DOMAIN tracker)
        /\ 0 <= status_report.completed
        /\ status_report.completed <= status_report.total
        /\ status_report.completed + status_report.failed + status_report.running
              + status_report.pending = status_report.total
        /\ RunningIds # {} =>
              /\ status_report.current_job.id \in RunningIds
              /\ status_report.current_job.shown # "-"
        /\ RunningIds = {} => status_report.current_job = NoCurrentJob
        /\ status_report.status # "UNKNOWN"

\* A report on a tracker with a finished record and a RUNNING record next to
\* a record that is not RUNNING.
C36_Witness ==
    /\ Reported
    /\ StatusCount(tracker, "SUCCEEDED") = 1
    /\ StatusCount(tracker, "RUNNING") = 1
    /\ StatusCount(tracker, "PENDING") = 1
    /\ status_report.current_job.id \in RunningIds

\* Threads of the session that are alive: the latest one and the superseded.
AliveThreads ==
    (IF ThreadAlive THEN 1 ELSE 0)
        + lingering["running"] + lingering["finally"] + lingering["exiting"]

\* Threads of the session that are alive and have not yet removed the key of
\* the session in their finally clause.
WorkingThreads ==
    (IF thread \in {"running", "finally"} THEN 1 ELSE 0)
        + lingering["running"] + lingering["finally"]

\* A start request is answered "already in progress" in this step.
RejectedInProgressStep ==
    /\ reply' = "Error: Processing already in progress"
    /\ reply # reply'

\* C34 (as stated): a start request for a session whose thread is alive is
\* rejected without starting a second thread and without touching the tracker,
\* and at most one background thread of the session is alive in every state.
C34_Original ==
    /\ [][RejectedInProgressStep =>
            /\ ThreadAlive
            /\ UNCHANGED << thread, lingering, tracker, active_sessions >>]_vars
    /\ [](AliveThreads <= 1)

\* C34 (amended): the rejection as stated, and at most one background thread
\* of the session is alive without having removed the session key in its
\* finally clause; a thread past that point may still be alive next to its
\* successor.
C34_OneWorkingThreadPerSession ==
    /\ [][RejectedInProgressStep =>
            /\ ThreadAlive
            /\ UNCHANGED << thread, lingering, tracker, active_sessions >>]_vars
    /\ [](WorkingThreads <= 1)

\* A request is rejected for the live successor of a thread that is itself
\* still alive after its clean-up.
C34_Witness ==
    /\ reply = "Error: Processing already in progress"
    /\ active_sessions
    /\ thread = "running"
    /\ lingering["exiting"] = 1

\* C35: once every thread of the session has ended, no start request is newly
\* answered "already in progress", and no status query newly reports
\* PROCESSING unless the tracker holds a RUNNING record; this in every
\* interleaving of the thread's clean-up with the registration of the thread.
C35_EndedThreadIsNotActive ==
    [][(thread = "dead" /\ AliveThreads = 0) =>
          /\ ~RejectedInProgressStep
          /\ (status_report' # status_report /\ status_report'.status = "PROCESSING")
                => RunningIds # {}]_vars

\* The thread removed its key before the starter registered it and has ended:
\* the registry holds the key of a dead thread, with records in the tracker.
C35_Witness ==
    /\ thread = "dead"
    /\ AliveThreads = 0
    /\ active_sessions
    /\ tool_pc = "idle"
    /\ DOMAIN tracker # {}

\* C37: the initialize_jobs of a run leaves every record that is not in its
\* list as it was, and the status reporter still counts these records: total
\* covers them and completed includes those that are SUCCEEDED.
C37_InitializeJobsLeavesOthers ==
    [][(pc = "tracker_init" /\ pc' = "loop") =>
          LET others == (DOMAIN tracker) \ initialised'
              report == get_session_status(FALSE, tracker')
          IN /\ \A i \in others : i \in DOMAIN tracker' /\ tracker'[i] = tracker[i]
             /\ report.total = Cardinality(others \cup initialised')
             /\ report.completed = Cardinality({i \in others : tracker[i] = "SUCCEEDED"})]_vars

\* A run restricted to a subset has initialised its jobs next to the record
\* an earlier run left SUCCEEDED for a job outside the subset.
C37_Witness ==
    /\ pc = "loop"
    /\ initialised # {}
    /\ \E b \in Jobs : JobId(b) \notin initialised /\ Rec(b) = "SUCCEEDED"

\* process_session was called with a job_id that matches a job of the session.
KnownIdCall == job_name = "None" /\ \E b \in Jobs : job_id \in {JobId(b)}

\* C38: process_session with a job_id that matches a catalog job executes
\* that job and no other, whatever the flags and the log files present, does
\* not call initialize_jobs, and leaves the records of all other jobs as they
\* were.
C38_RemoteRunsExactlyTheMatchingJob ==
    /\ [](KnownIdCall =>
            /\ initialised = {}
            /\ base_jobs_to_run = << IdToName[job_id] >>
            /\ \A b \in Jobs : JobId(b) # job_id => invoked[b] = 0
            /\ invoked[IdToName[job_id]] <= 1
            /\ pc \in {"extractor", "returned", "raised"} => invoked[IdToName[job_id]] = 1)
    /\ [][(job_name' = "None" /\ \E b \in Jobs : job_id' \in {JobId(b)}) =>
            /\ (DOMAIN tracker') \ {job_id'} = (DOMAIN tracker) \ {job_id'}
            /\ \A i \in (DOMAIN tracker) \ {job_id'} : tracker'[i] = tracker[i]]_vars

\* A job_id call has run its job to the end although the job's flag was not
\* set and its log file is absent, next to the finished record of another job.
C38_Witness ==
    /\ KnownIdCall
    /\ pc = "returned"
    /\ job_id \in DOMAIN tracker
    /\ tracker[job_id] = "SUCCEEDED"
    /\ flags # {}
    /\ IdToName[job_id] \notin flags
    /\ IdToName[job_id] \notin available_jobs
    /\ \E i \in (DOMAIN tracker) \ {job_id} : tracker[i] = "FAILED"

\* C39 (as stated): once extract_log_data has exited, by return or by
\* exception, its tracker is not in the running state, and it is in the error
\* state only if the runtime encountered an error: a call that returned
\* without an exception, the early return for a session without compressed
\* log files included, has not left the tracker in the error state.
C39_Original ==
    legacy_pc \in {"returned", "raised"} =>
        /\ legacy_tracker # "running"
        /\ legacy_tracker = "error" => legacy_raised # "none"

====
